---- MODULE Spec2Model ----
(***************************************************************************)
(* A model of google/go-intervals: the ordered interval-set engine         *)
(* (package intervalset) exercised with the integer `span` interval of     *)
(* intervalset_test.go.                                                    *)
(*                                                                         *)
(* The span type and its capability methods (Intersect, Before, IsZero,    *)
(* Bisect, Adjoin, Encompass) are translated from the source.  The Set     *)
(* engine itself (Add, Sub, Intersect, Contains, IntervalsBetween,         *)
(* ImmutableSet/Copy) is translated from the design description, section   *)
(* 4.2 of the specification.                                               *)
(*                                                                         *)
(* Package modinterval (Modulus, IntInterval, RealIntInterval) is          *)
(* translated from the source and exercised by SpecMod and SpecReal.       *)
(***************************************************************************)
EXTENDS Integers, Sequences, FiniteSets, TLC

\* Points of the integer domain are 0 .. MaxPoint; spans are [min, max).
MaxPoint == 5

\* A visitor of IntervalsBetween returns "stop" on its StopAt-th call, for a
\* StopAt in 1 .. MaxStopAt, or always continues (StopAt = 0).
MaxStopAt == 2

\* A scan of Add, Sub or Intersect is followed for at most MaxSteps steps.
MaxSteps == 12

\* Moduli of package modinterval range over -1 .. MaxModulus, position
\* designators over -(MaxModulus + 1) .. MaxModulus + 1 and sizes over
\* -1 .. MaxModulus + 2.
MaxModulus == 5

\* RealIntIntervals start in -MaxReal .. MaxReal and have sizes 0 .. MaxReal;
\* the values of Expand range over -(MaxReal + 1) .. 2 * MaxReal + 1.
MaxReal == 4

VARIABLES
    A,        \* the interval sequence of the mutable Set receiving the calls
    B,        \* the interval sequence held in the second set's own storage
    argCell,  \* the storage the second set reads: "b" its own, "a" that of A
    bKind,    \* how the second set was made: "new", "snapshot", "self"
    snapAt,   \* the sequence of A at the moment the snapshot was taken
    last,     \* the last call: its name and the operands before the call
    ret,      \* the value returned by the last query or ImmutableSet call
    ib,       \* the IntervalsBetween call in progress
    scan,     \* the scan of Add, Sub or Intersect in progress, step by step
    mod       \* the last call of package modinterval: arguments and result

vars == <<A, B, argCell, bKind, snapAt, last, ret, ib, scan, mod>>

----------------------------------------------------------------------------
(* The span interval of intervalset_test.go.                               *)

span(lo, hi) == [min |-> lo, max |-> hi]

zero == span(0, 0)

min(a, b) == IF a < b THEN a ELSE b

max(a, b) == IF a > b THEN a ELSE b

Equal(s, t) == s.min = t.min /\ s.max = t.max

Intersect_keepsEmpty(s, t) ==
    LET result == span(max(s.min, t.min), min(s.max, t.max))
    IN  IF result.min <= result.max THEN result ELSE zero

Intersect_minStart(s, t) ==
    LET result == span(min(s.min, t.min), min(s.max, t.max))
    IN  IF result.min < result.max THEN result ELSE zero

Intersect_selfEnd(s, t) ==
    LET result == span(max(s.min, t.min), s.max)
    IN  IF result.min < result.max THEN result ELSE zero

Intersect(s, t) ==
    LET result == span(max(s.min, t.min), min(s.max, t.max))
    IN  IF result.min < result.max THEN result ELSE zero

Before_strict(s, t) == s.max < t.min

Before(s, t) == s.max <= t.min

IsZero(s) == s.min = 0 /\ s.max = 0

maybeZero(lo, hi) == IF lo = hi THEN zero ELSE span(lo, hi)

Bisect_keepsLeft(s, t) ==
    LET intersection == Intersect(s, t)
    IN  IF IsZero(intersection)
        THEN IF Before(s, t)
             THEN [left |-> s, right |-> zero]
             ELSE [left |-> zero, right |-> s]
        ELSE [left  |-> span(s.min, intersection.min),
              right |-> maybeZero(intersection.max, s.max)]

Bisect_noRight(s, t) ==
    LET intersection == Intersect(s, t)
    IN  IF IsZero(intersection)
        THEN IF Before(s, t)
             THEN [left |-> s, right |-> zero]
             ELSE [left |-> zero, right |-> s]
        ELSE [left  |-> maybeZero(s.min, intersection.min),
              right |-> zero]

Bisect(s, t) ==
    LET intersection == Intersect(s, t)
    IN  IF IsZero(intersection)
        THEN IF Before(s, t)
             THEN [left |-> s, right |-> zero]
             ELSE [left |-> zero, right |-> s]
        ELSE [left  |-> maybeZero(s.min, intersection.min),
              right |-> maybeZero(intersection.max, s.max)]

Adjoin_oneSided(s, t) ==
    IF t.max = s.min THEN span(t.min, s.max) ELSE zero

Adjoin(s, t) ==
    IF s.max = t.min THEN span(s.min, t.max)
    ELSE IF t.max = s.min THEN span(t.min, s.max)
    ELSE zero

Encompass_keepsEnd(s, t) == span(min(s.min, t.min), s.max)

Encompass(s, t) == span(min(s.min, t.min), max(s.max, t.max))

----------------------------------------------------------------------------
(* Inputs: the non-empty spans of the domain and the valid Sets over it.   *)

Points == 0 .. (MaxPoint - 1)

Spans == { span(lo, hi) : lo \in 0 .. MaxPoint, hi \in 0 .. MaxPoint } \
         { s \in [min : 0 .. MaxPoint, max : 0 .. MaxPoint] : s.min >= s.max }

\* The points covered by a span and by a sequence of spans.
Covers(s) == { p \in Points : s.min <= p /\ p < s.max }

PointsOf(seq) == UNION { Covers(seq[k]) : k \in 1 .. Len(seq) }

\* The canonical sequence of a set of points: its maximal runs, ascending.
RECURSIVE RunsFrom(_, _)
RunsFrom(P, p) ==
    IF p >= MaxPoint THEN << >>
    ELSE IF p \notin P THEN RunsFrom(P, p + 1)
    ELSE LET e == CHOOSE q \in (p + 1) .. MaxPoint :
                      /\ \A r \in p .. (q - 1) : r \in P
                      /\ (q = MaxPoint \/ q \notin P)
         IN  << span(p, e) >> \o RunsFrom(P, e)

ValidSets == { RunsFrom(P, 0) : P \in SUBSET Points }

----------------------------------------------------------------------------
(* The Set engine.  Each scan returns the output sequence and the number   *)
(* of scan steps it took.                                                  *)

\* Candidates are taken from either operand in position order.
StartsNoLater(x, y) == x.min <= y.min

\* Add: merge both sequences by position under a running accumulator; acc
\* is the zero interval while no accumulator has been started.
RECURSIVE AddScan(_, _, _, _, _, _, _)
AddScan(a, b, i, j, acc, out, steps) ==
    IF i > Len(a) /\ j > Len(b)
    THEN [out |-> IF IsZero(acc) THEN out ELSE Append(out, acc), steps |-> steps]
    ELSE LET takeA == /\ i <= Len(a)
                      /\ (j > Len(b) \/ StartsNoLater(a[i], b[j]))
             c  == IF takeA THEN a[i] ELSE b[j]
             i2 == IF takeA THEN i + 1 ELSE i
             j2 == IF takeA THEN j ELSE j + 1
         IN  IF IsZero(acc)
             THEN AddScan(a, b, i2, j2, c, out, steps + 1)
             ELSE IF ~IsZero(Intersect(acc, c)) \/ ~IsZero(Adjoin(acc, c))
             THEN AddScan(a, b, i2, j2, Encompass(acc, c), out, steps + 1)
             ELSE AddScan(a, b, i2, j2, c, Append(out, acc), steps + 1)

SetAdd(a, b) == AddScan(a, b, 1, 1, zero, << >>, 0)

\* Sub: x is the current self-interval (the remainder of a[i]).
RECURSIVE SubScan(_, _, _, _, _, _, _)
SubScan(a, b, i, j, x, out, steps) ==
    IF i > Len(a) THEN [out |-> out, steps |-> steps]
    ELSE IF j > Len(b)
    THEN \* the other sequence is exhausted: emit what remains of self
         [out |-> (Append(out, x) \o SubSeq(a, i + 1, Len(a))), steps |-> steps]
    ELSE IF Before(b[j], x)
    THEN SubScan(a, b, i, j + 1, x, out, steps + 1)
    ELSE LET parts == Bisect(x, b[j])
             out2  == IF IsZero(parts.left) THEN out ELSE Append(out, parts.left)
         IN  IF IsZero(parts.right)
             THEN SubScan(a, b, i + 1, j,
                          IF i + 1 <= Len(a) THEN a[i + 1] ELSE zero,
                          out2, steps + 1)
             ELSE SubScan(a, b, i, j, parts.right, out2, steps + 1)

SetSub(a, b) ==
    SubScan(a, b, 1, 1, IF Len(a) > 0 THEN a[1] ELSE zero, << >>, 0)

\* Intersect: two-pointer merge-join.
RECURSIVE IntersectScan(_, _, _, _, _, _)
IntersectScan(a, b, i, j, out, steps) ==
    IF i > Len(a) \/ j > Len(b) THEN [out |-> out, steps |-> steps]
    ELSE LET x    == Intersect(a[i], b[j])
             out2 == IF IsZero(x) THEN out ELSE Append(out, x)
         IN  IF Before(a[i], b[j])
             THEN IntersectScan(a, b, i + 1, j, out2, steps + 1)
             ELSE IF Before(b[j], a[i])
             THEN IntersectScan(a, b, i, j + 1, out2, steps + 1)
             ELSE IntersectScan(a, b, i + 1, j + 1, out2, steps + 1)

SetIntersect(a, b) == IntersectScan(a, b, 1, 1, << >>, 0)

\* Contains: the candidate is the empty value, or bisecting it against some
\* element leaves two empty remainders.
SetContains(a, c) ==
    \/ IsZero(c)
    \/ \E k \in 1 .. Len(a) :
           LET parts == Bisect(c, a[k])
           IN  IsZero(parts.left) /\ IsZero(parts.right)

\* Extent: Encompass folded over the sequence in order, or the zero interval
\* for the empty sequence.
RECURSIVE ExtentFold(_, _, _)
ExtentFold(a, k, acc) ==
    IF k > Len(a) THEN acc ELSE ExtentFold(a, k + 1, Encompass(acc, a[k]))

SetExtent(a) == IF Len(a) = 0 THEN zero ELSE ExtentFold(a, 2, a[1])

\* ImmutableSet()/Copy(): a structural copy of the sequence s held in storage
\* src; the copy lives in storage of its own.
Copy_shared(src, s) == [cell |-> src, intervals |-> s]

Copy(src, s) == [cell |-> "fresh", intervals |-> s]

\* IntervalsBetween: the scan of a fresh call starts at the first element,
\* and goes on while the visitor has not signalled stop.
IBFirst(st) == 1

IBContinue(st) == ~st.stopped

----------------------------------------------------------------------------
(* The state machine: a mutable Set A, a second set used as the argument   *)
(* of A's operations (a set built by the caller, a snapshot of A, or A     *)
(* itself), and the calls of the Set API.                                  *)

\* The sequence seen through the second set.
View == IF argCell = "a" THEN A ELSE B

NoCall == [op |-> "none", preA |-> << >>, preB |-> << >>, x |-> zero]

Call(op, x) == [op |-> op, preA |-> A, preB |-> View, x |-> x]

NoRet == [kind |-> "none", val |-> << >>]

Idle == [pc |-> "idle", bounds |-> zero, k |-> 0, visited |-> << >>,
         stopAt |-> 0, stopped |-> FALSE]

\* No scan is in progress; no modinterval call has been made.
NoScan == [pc |-> "idle"]

NoMod == [op |-> "none"]

Mutators == {"Add", "Sub", "Intersect"}

ImmutableOps == {"Union", "ImmutableSub", "ImmutableIntersect"}

\* The state after construction: A is the empty Set, and the second set is
\* NewSet(intervals) / NewImmutableSet(intervals) over a sorted disjoint
\* collection supplied by the caller.
Init ==
    /\ A = << >>
    /\ B \in ValidSets
    /\ argCell = "b"
    /\ bKind = "new"
    /\ snapAt = << >>
    /\ last = NoCall
    /\ ret = NoRet
    /\ ib = Idle
    /\ scan = NoScan
    /\ mod = NoMod

\* A.ImmutableSet() / A.Copy(): the second set becomes a snapshot of A.
ImmutableSet ==
    LET c == Copy("a", A)
    IN  /\ argCell' = IF c.cell = "fresh" THEN "b" ELSE c.cell
        /\ B' = c.intervals
        /\ bKind' = "snapshot"
        /\ snapAt' = A
        /\ last' = [NoCall EXCEPT !.op = "ImmutableSet"]
        /\ ret' = NoRet
        /\ UNCHANGED <<A, ib, scan, mod>>

\* The caller passes A itself as the argument of the next calls.
ArgSelf ==
    /\ bKind # "self"
    /\ argCell' = "a"
    /\ bKind' = "self"
    /\ B' = << >>
    /\ snapAt' = << >>
    /\ last' = [NoCall EXCEPT !.op = "ArgSelf"]
    /\ ret' = NoRet
    /\ UNCHANGED <<A, ib, scan, mod>>

\* A.Insert(x): add the single interval x.
Insert(x) ==
    /\ A' = SetAdd(A, << x >>).out
    /\ last' = Call("Insert", x)
    /\ ret' = NoRet
    /\ UNCHANGED <<B, argCell, bKind, snapAt, ib, scan, mod>>

\* A.Add(b), A.Sub(b), A.Intersect(b) with the second set as b: the new
\* sequence is written to the storage of A.
Add ==
    /\ A' = SetAdd(A, View).out
    /\ last' = Call("Add", zero)
    /\ ret' = NoRet
    /\ UNCHANGED <<B, argCell, bKind, snapAt, ib, scan, mod>>

Sub ==
    /\ A' = SetSub(A, View).out
    /\ last' = Call("Sub", zero)
    /\ ret' = NoRet
    /\ UNCHANGED <<B, argCell, bKind, snapAt, ib, scan, mod>>

IntersectCall ==
    /\ A' = SetIntersect(A, View).out
    /\ last' = Call("Intersect", zero)
    /\ ret' = NoRet
    /\ UNCHANGED <<B, argCell, bKind, snapAt, ib, scan, mod>>

\* The ImmutableSet operations, called on the (immutable) second set with A
\* as the argument: the operation runs on a copy of the receiver, and the
\* copy is returned.
ImmutableResult(op, s, b) ==
    IF op = "Union" THEN SetAdd(s, b).out
    ELSE IF op = "ImmutableSub" THEN SetSub(s, b).out
    ELSE SetIntersect(s, b).out

ImmutableCall(op) ==
    /\ bKind # "self"
    /\ LET c == Copy(argCell, View)
           r == ImmutableResult(op, c.intervals, A)
       IN  /\ ret' = [kind |-> "set", val |-> r]
           /\ A' = IF c.cell = "a" THEN r ELSE A
           /\ B' = IF c.cell = "b" THEN r ELSE B
    /\ last' = Call(op, zero)
    /\ UNCHANGED <<argCell, bKind, snapAt, ib, scan, mod>>

Next ==
    \/ ImmutableSet
    \/ ArgSelf
    \/ \E x \in Spans : Insert(x)
    \/ Add
    \/ Sub
    \/ IntersectCall
    \/ \E op \in ImmutableOps : ImmutableCall(op)

Spec == Init /\ [][Next]_vars

----------------------------------------------------------------------------
(* The queries: Contains and IntervalsBetween on a Set A built from a      *)
(* sorted disjoint collection.  IntervalsBetween runs one element per      *)
(* step, calling visit between the steps.                                  *)

\* The inputs of the queries: a non-empty span or the zero interval.
SpansOrZero == Spans \cup {zero}

InitQuery ==
    /\ A \in ValidSets
    /\ B = << >>
    /\ argCell = "b"
    /\ bKind = "new"
    /\ snapAt = << >>
    /\ last = NoCall
    /\ ret = NoRet
    /\ ib = Idle
    /\ scan = NoScan
    /\ mod = NoMod

\* A.Contains(c).
ContainsCall(c) ==
    /\ ib.pc # "scan"
    /\ ret' = [kind |-> "bool", val |-> SetContains(A, c)]
    /\ last' = [op |-> "Contains", preA |-> A, preB |-> << >>, x |-> c]
    /\ ib' = Idle
    /\ UNCHANGED <<A, B, argCell, bKind, snapAt, scan, mod>>

\* A.Extent().
ExtentCall ==
    /\ ib.pc # "scan"
    /\ ret' = [kind |-> "interval", val |-> SetExtent(A)]
    /\ last' = [op |-> "Extent", preA |-> A, preB |-> << >>, x |-> zero]
    /\ ib' = Idle
    /\ UNCHANGED <<A, B, argCell, bKind, snapAt, scan, mod>>

\* A.IntervalsBetween(bounds, visit) is called; visit returns stop on its
\* stopAt-th call (never, when stopAt = 0).
IBStart(bounds, stopAt) ==
    /\ ib.pc # "scan"
    /\ ib' = [pc |-> "scan", bounds |-> bounds, k |-> IBFirst(ib),
              visited |-> << >>, stopAt |-> stopAt, stopped |-> FALSE]
    /\ last' = [op |-> "IntervalsBetween", preA |-> A, preB |-> << >>, x |-> bounds]
    /\ ret' = NoRet
    /\ UNCHANGED <<A, B, argCell, bKind, snapAt, scan, mod>>

\* One element of the scan: its intersection with bounds is passed to visit
\* unless it is empty.
IBStep ==
    /\ ib.pc = "scan"
    /\ IBContinue(ib)
    /\ ib.k <= Len(A)
    /\ LET x == Intersect(A[ib.k], ib.bounds)
       IN  IF IsZero(x)
           THEN ib' = [ib EXCEPT !.k = @ + 1]
           ELSE ib' = [ib EXCEPT !.k = @ + 1,
                                 !.visited = Append(@, x),
                                 !.stopped = (Len(ib.visited) + 1 = ib.stopAt)]
    /\ UNCHANGED <<A, B, argCell, bKind, snapAt, last, ret, scan, mod>>

\* The call returns: the visitor signalled stop or the sequence is exhausted.
IBReturn ==
    /\ ib.pc = "scan"
    /\ (ib.stopped \/ ib.k > Len(A))
    /\ ib' = [ib EXCEPT !.pc = "done"]
    /\ UNCHANGED <<A, B, argCell, bKind, snapAt, last, ret, scan, mod>>

NextQuery ==
    \/ \E c \in SpansOrZero : ContainsCall(c)
    \/ ExtentCall
    \/ \E bounds \in SpansOrZero, stopAt \in 0 .. MaxStopAt : IBStart(bounds, stopAt)
    \/ IBStep
    \/ IBReturn

SpecQuery == InitQuery /\ [][NextQuery]_vars

----------------------------------------------------------------------------
(* Properties of the set algebra.                                          *)

\* C1: after A.Add(B) the points covered by A are exactly the points covered
\* by A before the call together with the points covered by B.
C1_AddCoversUnion ==
    last.op = "Add" =>
        PointsOf(A) = PointsOf(last.preA) \cup PointsOf(last.preB)

\* An Add whose argument bridged two elements of A into one.
C1_Witness ==
    /\ last.op = "Add"
    /\ Len(last.preA) = 2
    /\ Len(last.preB) = 1
    /\ Len(A) = 1

\* C2: after A.Sub(B) the points covered by A are the points A covered before
\* that B does not cover; an interval strictly inside one element of A splits
\* that element in two; the elements of A past the end of B are kept as is.
C2_SubCoversDifference ==
    last.op = "Sub" =>
        LET a == last.preA
            b == last.preB
        IN  /\ PointsOf(A) = PointsOf(a) \ PointsOf(b)
            /\ \A k \in 1 .. Len(a) :
                   (Len(b) = 1 /\ a[k].min < b[1].min /\ b[1].max < a[k].max)
                   => A = SubSeq(a, 1, k - 1)
                          \o << span(a[k].min, b[1].min), span(b[1].max, a[k].max) >>
                          \o SubSeq(a, k + 1, Len(a))
            /\ \A k \in 1 .. Len(a) :
                   (b = << >> \/ Before(b[Len(b)], a[k]))
                   => A[Len(A) - (Len(a) - k)] = a[k]

\* A Sub that split one element of A and kept a later element unchanged.
C2_Witness ==
    /\ last.op = "Sub"
    /\ Len(last.preA) = 2
    /\ Len(last.preB) = 1
    /\ last.preA[1].min < last.preB[1].min
    /\ last.preB[1].max < last.preA[1].max
    /\ Len(A) = 3

\* C3: after A.Intersect(B) the points covered by A are exactly the points
\* covered by both A before the call and B.
C3_IntersectCoversIntersection ==
    last.op = "Intersect" =>
        PointsOf(A) = PointsOf(last.preA) \cap PointsOf(last.preB)

\* C4: the sequence of a Set is strictly ascending: each element is before
\* the next one.
C4_Sorted ==
    \A k \in 1 .. (Len(A) - 1) :
        /\ Before(A[k], A[k + 1])
        /\ A[k].min < A[k + 1].min

\* A Sub has left A with three elements.
C4_Witness ==
    /\ last.op = "Sub"
    /\ Len(A) = 3
    /\ Len(last.preA) < 3

\* C5: no two elements of a Set overlap or are adjacent; inserting the
\* interval between two elements merges all three into one.
C5_DisjointNonAdjacent ==
    /\ \A k \in 1 .. (Len(A) - 1) : A[k].max < A[k + 1].min
    /\ \A k \in 1 .. Len(A) : A[k].min < A[k].max
    /\ (/\ last.op = "Insert"
        /\ Len(last.preA) = 2
        /\ last.x = span(last.preA[1].max, last.preA[2].min))
       => A = << span(last.preA[1].min, last.preA[2].max) >>

\* The interval between the two elements of A was inserted.
C5_Witness ==
    /\ last.op = "Insert"
    /\ Len(last.preA) = 2
    /\ last.x = span(last.preA[1].max, last.preA[2].min)
    /\ Len(A) = 1

\* C6: a snapshot of A keeps showing the sequence A had when the snapshot
\* was taken, whatever is done to A afterwards.
C6_SnapshotIsolation ==
    bKind = "snapshot" => View = snapAt

\* A was changed by a call after the snapshot was taken.
C6_Witness ==
    /\ bKind = "snapshot"
    /\ last.op \in Mutators \cup {"Insert"}
    /\ A # snapAt
    /\ A # last.preA

\* C7: Add, Sub and Intersect leave a distinct argument set unchanged; the
\* ImmutableSet operations change neither their receiver nor their argument.
C7_ArgumentReadOnly ==
    /\ (last.op \in Mutators /\ bKind # "self") => View = last.preB
    /\ last.op \in ImmutableOps => (View = last.preB /\ A = last.preA)

\* A call changed A while its argument was non-empty, or an ImmutableSet
\* operation returned a set different from its receiver.
C7_Witness ==
    \/ /\ last.op \in Mutators
       /\ bKind # "self"
       /\ last.preB # << >>
       /\ A # last.preA
    \/ /\ last.op \in ImmutableOps
       /\ ret.val # last.preB
       /\ last.preA # << >>

----------------------------------------------------------------------------
(* Properties of the queries.                                              *)

\* The elements of A that share a point with the bounds of the call, and the
\* n-th of them in ascending order.
Hits == { k \in 1 .. Len(A) : Covers(A[k]) \cap Covers(ib.bounds) # {} }

NthHit(n) == CHOOSE k \in Hits : Cardinality({ h \in Hits : h <= k }) = n

\* C8: with a visitor that always continues, IntervalsBetween calls visit
\* once for each element overlapping bounds, in ascending order, passing the
\* intersection of the element with bounds, and never an empty interval.
C8_IntervalsBetweenVisitsOverlaps ==
    ib.stopAt = 0 =>
        /\ \A n \in 1 .. Len(ib.visited) :
               /\ ~IsZero(ib.visited[n])
               /\ ib.visited[n].min < ib.visited[n].max
        /\ ib.pc = "done" =>
               /\ Len(ib.visited) = Cardinality(Hits)
               /\ \A n \in 1 .. Len(ib.visited) :
                      Covers(ib.visited[n]) = Covers(A[NthHit(n)]) \cap Covers(ib.bounds)
               /\ \A n \in 1 .. (Len(ib.visited) - 1) :
                      ib.visited[n].max <= ib.visited[n + 1].min

\* A finished call that skipped the first element and clipped the second.
C8_Witness ==
    /\ ib.pc = "done"
    /\ ib.stopAt = 0
    /\ Len(A) = 2
    /\ Len(ib.visited) = 1
    /\ Hits = {2}
    /\ ib.visited[1] # A[2]

\* A step taken after visit has returned stop calls visit no more and leaves
\* the Set as it is.
C9_StepAfterStop ==
    (ib.pc = "scan" /\ ib.stopped) => (ib'.visited = ib.visited /\ A' = A)

\* A finished call whose visitor stops on its first call has called visit
\* once, with the first overlapping element, and the Set is as before.
C9_StoppedCall ==
    (ib.pc = "done" /\ ib.stopAt = 1 /\ Hits # {}) =>
        /\ Len(ib.visited) = 1
        /\ Covers(ib.visited[1]) = Covers(A[NthHit(1)]) \cap Covers(ib.bounds)
        /\ A = last.preA

\* C9: once visit has returned stop it is not called again during the call
\* and the Set is not changed; a visitor that stops on its first call is
\* called exactly once, with the first overlapping element, in every call.
C9_EarlyExit == [][C9_StepAfterStop]_vars /\ []C9_StoppedCall

\* A call has returned after one visit although two elements overlap bounds.
C9_Witness ==
    /\ ib.pc = "done"
    /\ ib.stopAt = 1
    /\ ib.stopped
    /\ Len(ib.visited) = 1
    /\ Cardinality(Hits) >= 2

\* C10: Contains(c) is true iff c is the empty interval or lies within a
\* single element of the Set, which is the case iff every point of c is
\* covered by the Set.
C10_Contains ==
    last.op = "Contains" =>
        LET c == last.x
        IN  /\ ret.val = (\/ IsZero(c)
                          \/ \E k \in 1 .. Len(A) :
                                 A[k].min <= c.min /\ c.max <= A[k].max)
            /\ ret.val = (Covers(c) \subseteq PointsOf(A))

\* Contains answered true for an interval strictly inside the second element.
C10_Witness ==
    /\ last.op = "Contains"
    /\ ret.val = TRUE
    /\ Len(A) = 2
    /\ A[2].min < last.x.min
    /\ last.x.max < A[2].max

\* C11: Extent() is the zero interval for the empty Set, and otherwise the
\* smallest interval containing every element: from the start of the first
\* element to the end of the last one, gaps included.
C11_Extent ==
    last.op = "Extent" =>
        /\ A = << >> => ret.val = zero
        /\ A # << >> =>
               /\ ret.val = span(A[1].min, A[Len(A)].max)
               /\ PointsOf(A) \subseteq Covers(ret.val)
               /\ \A s \in Spans :
                      PointsOf(A) \subseteq Covers(s) => Covers(ret.val) \subseteq Covers(s)

\* The extent of a Set of two elements covers the gap between them.
C11_Witness ==
    /\ last.op = "Extent"
    /\ Len(A) = 2
    /\ Covers(ret.val) # PointsOf(A)

\* C15: A.Add(A), and A.Add of a snapshot of A that still holds the sequence
\* of A, leave A with the same interval sequence; A.Sub(A) leaves A empty.
C15_SelfApplication ==
    /\ (last.op = "Add" /\ bKind \in {"self", "snapshot"} /\ last.preB = last.preA)
           => A = last.preA
    /\ (last.op = "Sub" /\ bKind = "self") => A = << >>

\* A Set of two elements has been subtracted from itself.
C15_Witness ==
    /\ last.op = "Sub"
    /\ bKind = "self"
    /\ Len(last.preA) = 2
    /\ A = << >>

----------------------------------------------------------------------------
(* The algebraic laws: the operations applied to copies of two valid Sets  *)
(* A and B, which the calls leave as they are.                             *)

InitAlgebra ==
    /\ A \in ValidSets
    /\ B \in ValidSets
    /\ argCell = "b"
    /\ bKind = "new"
    /\ snapAt = << >>
    /\ last = NoCall
    /\ ret = NoRet
    /\ ib = Idle
    /\ scan = NoScan
    /\ mod = NoMod

\* D = copy of A; D.Sub(B); I = copy of A; I.Intersect(B); D.Add(I).
RoundTrip ==
    /\ LET D == SetSub(Copy("a", A).intervals, B).out
           I == SetIntersect(Copy("a", A).intervals, B).out
       IN  ret' = [kind |-> "set", val |-> SetAdd(D, I).out]
    /\ last' = Call("RoundTrip", zero)
    /\ UNCHANGED <<A, B, argCell, bKind, snapAt, ib, scan, mod>>

\* X = copy of A; X.Add(B); Y = copy of B; Y.Add(A).
AddBothWays ==
    /\ ret' = [kind |-> "pair",
               val  |-> <<SetAdd(Copy("a", A).intervals, B).out,
                          SetAdd(Copy("b", B).intervals, A).out>>]
    /\ last' = Call("AddBothWays", zero)
    /\ UNCHANGED <<A, B, argCell, bKind, snapAt, ib, scan, mod>>

\* X = copy of A; X.Intersect(B); Y = copy of B; Y.Intersect(A).
IntersectBothWays ==
    /\ ret' = [kind |-> "pair",
               val  |-> <<SetIntersect(Copy("a", A).intervals, B).out,
                          SetIntersect(Copy("b", B).intervals, A).out>>]
    /\ last' = Call("IntersectBothWays", zero)
    /\ UNCHANGED <<A, B, argCell, bKind, snapAt, ib, scan, mod>>

NextAlgebra ==
    \/ RoundTrip
    \/ AddBothWays
    \/ IntersectBothWays

SpecAlgebra == InitAlgebra /\ [][NextAlgebra]_vars

\* C12: A.Sub(B).Add(A.Intersect(B)), computed on copies of A, has the
\* interval sequence of A (and so covers the same points).
C12_RoundTrip ==
    last.op = "RoundTrip" => ret.val = last.preA

\* C13: A.Add(B) and B.Add(A) have the same interval sequence and cover the
\* same points, the union of both operands.
C13_AddCommutative ==
    last.op = "AddBothWays" =>
        /\ ret.val[1] = ret.val[2]
        /\ PointsOf(ret.val[1]) = PointsOf(ret.val[2])

\* Two overlapping operands that start at the same point and end at
\* different ones have been added both ways.
C13_Witness ==
    /\ last.op = "AddBothWays"
    /\ Len(A) >= 1 /\ Len(B) >= 1
    /\ A[1].min = B[1].min /\ A[1].max # B[1].max
    /\ Len(ret.val[1]) < Len(A) + Len(B)

\* C14: A.Intersect(B) and B.Intersect(A) have the same interval sequence,
\* also for operands of different lengths where one element of one operand
\* spans several elements of the other.
C14_IntersectCommutative ==
    last.op = "IntersectBothWays" => ret.val[1] = ret.val[2]

\* One element of A spans two elements of B, and the results are not empty.
C14_Witness ==
    /\ last.op = "IntersectBothWays"
    /\ Len(A) = 1 /\ Len(B) = 2
    /\ A[1].min <= B[1].min /\ B[2].max <= A[1].max
    /\ ret.val[1] # << >>

----------------------------------------------------------------------------
(* Add, Sub and Intersect one scan step at a time: A is the Set receiving  *)
(* the call and B the argument.  scan.i and scan.j are the two pointers,   *)
(* scan.x the accumulator of Add or the current self-interval of Sub.      *)

ScanDone(st, a, b) ==
    IF st.op = "Add" THEN st.i > Len(a) /\ st.j > Len(b)
    ELSE st.i > Len(a) \/ st.j > Len(b)

\* One step of Add: take the next candidate in position order.
AddStep(st, a, b) ==
    LET takeA == /\ st.i <= Len(a)
                 /\ (st.j > Len(b) \/ StartsNoLater(a[st.i], b[st.j]))
        c     == IF takeA THEN a[st.i] ELSE b[st.j]
        moved == [st EXCEPT !.i = IF takeA THEN @ + 1 ELSE @,
                            !.j = IF takeA THEN @ ELSE @ + 1,
                            !.steps = @ + 1]
    IN  IF IsZero(st.x) THEN [moved EXCEPT !.x = c]
        ELSE IF ~IsZero(Intersect(st.x, c)) \/ ~IsZero(Adjoin(st.x, c))
        THEN [moved EXCEPT !.x = Encompass(st.x, c)]
        ELSE [moved EXCEPT !.x = c, !.out = Append(@, st.x)]

\* One step of Sub: advance the other-pointer, or bisect the current
\* self-interval against the current other-interval.
SubStep(st, a, b) ==
    IF Before(b[st.j], st.x)
    THEN [st EXCEPT !.j = @ + 1, !.steps = @ + 1]
    ELSE LET parts == Bisect(st.x, b[st.j])
             out2  == IF IsZero(parts.left) THEN st.out
                      ELSE Append(st.out, parts.left)
         IN  IF IsZero(parts.right)
             THEN [st EXCEPT !.i = @ + 1,
                             !.x = IF st.i + 1 <= Len(a) THEN a[st.i + 1] ELSE zero,
                             !.out = out2, !.steps = @ + 1]
             ELSE [st EXCEPT !.x = parts.right, !.out = out2, !.steps = @ + 1]

\* One step of Intersect: emit the overlap of the current pair and advance.
IntersectStep(st, a, b) ==
    LET x    == Intersect(a[st.i], b[st.j])
        out2 == IF IsZero(x) THEN st.out ELSE Append(st.out, x)
    IN  IF Before(a[st.i], b[st.j])
        THEN [st EXCEPT !.i = @ + 1, !.out = out2, !.steps = @ + 1]
        ELSE IF Before(b[st.j], a[st.i])
        THEN [st EXCEPT !.j = @ + 1, !.out = out2, !.steps = @ + 1]
        ELSE [st EXCEPT !.i = @ + 1, !.j = @ + 1, !.out = out2, !.steps = @ + 1]

\* The sequence written to A when the scan ends.
ScanResult(st, a, b) ==
    IF st.op = "Add"
    THEN IF IsZero(st.x) THEN st.out ELSE Append(st.out, st.x)
    ELSE IF st.op = "Sub" /\ st.i <= Len(a)
    THEN Append(st.out, st.x) \o SubSeq(a, st.i + 1, Len(a))
    ELSE st.out

InitScan ==
    /\ A \in ValidSets
    /\ B \in ValidSets
    /\ argCell = "b"
    /\ bKind = "new"
    /\ snapAt = << >>
    /\ last = NoCall
    /\ ret = NoRet
    /\ ib = Idle
    /\ scan = NoScan
    /\ mod = NoMod

\* A.Add(B), A.Sub(B) or A.Intersect(B) is called.
ScanStart(op) ==
    /\ scan.pc = "idle"
    /\ scan' = [pc |-> "run", op |-> op, i |-> 1, j |-> 1,
                x |-> IF op = "Sub" /\ Len(A) > 0 THEN A[1] ELSE zero,
                out |-> << >>, steps |-> 0]
    /\ last' = Call(op, zero)
    /\ UNCHANGED <<A, B, argCell, bKind, snapAt, ret, ib, mod>>

\* One iteration of the scan loop.
ScanStep ==
    /\ scan.pc = "run"
    /\ ~ScanDone(scan, A, B)
    /\ scan.steps < MaxSteps
    /\ scan' = IF scan.op = "Add" THEN AddStep(scan, A, B)
               ELSE IF scan.op = "Sub" THEN SubStep(scan, A, B)
               ELSE IntersectStep(scan, A, B)
    /\ UNCHANGED <<A, B, argCell, bKind, snapAt, last, ret, ib, mod>>

\* The loop has ended: the call writes the new sequence to A and returns.
ScanFinish ==
    /\ scan.pc = "run"
    /\ ScanDone(scan, A, B)
    /\ A' = ScanResult(scan, A, B)
    /\ scan' = [scan EXCEPT !.pc = "done"]
    /\ UNCHANGED <<B, argCell, bKind, snapAt, last, ret, ib, mod>>

NextScan ==
    \/ \E op \in Mutators : ScanStart(op)
    \/ ScanStep
    \/ ScanFinish

\* A call that has started runs on: nothing suspends the loop.
SpecScan == InitScan /\ [][NextScan]_vars /\ WF_vars(ScanStep \/ ScanFinish)

\* A step of a running scan advances a pointer or strictly shrinks the
\* current self-interval, and no pointer moves back.
C17_Progress ==
    (scan.pc = "run" /\ scan'.pc = "run") =>
        /\ scan'.i >= scan.i /\ scan'.j >= scan.j
        /\ \/ scan'.i > scan.i
           \/ scan'.j > scan.j
           \/ /\ scan.op = "Sub"
              /\ Covers(scan'.x) \subseteq Covers(scan.x)
              /\ Covers(scan'.x) # Covers(scan.x)

\* The scan stays inside both sequences, its number of steps is linear in
\* the combined lengths, and it ends with the result of the whole call.
C17_Bounded ==
    scan.pc \in {"run", "done"} =>
        /\ scan.i \in 1 .. (Len(last.preA) + 1)
        /\ scan.j \in 1 .. (Len(last.preB) + 1)
        /\ scan.steps <= Len(last.preA) + Len(last.preB)
                          + (IF scan.op = "Sub" THEN Len(last.preB) ELSE 0)
        /\ scan.pc = "done" =>
               A = (IF scan.op = "Add" THEN SetAdd(last.preA, last.preB)
                    ELSE IF scan.op = "Sub" THEN SetSub(last.preA, last.preB)
                    ELSE SetIntersect(last.preA, last.preB)).out

\* C17: every call of Add, Sub or Intersect on two valid Sets (empty ones
\* included) ends without failing; each step of its scan advances one of the
\* two pointers or strictly shrinks the current self-interval, and the number
\* of steps is at most Len(A) + Len(B), plus Len(B) shrinking steps for Sub.
C17_Termination ==
    /\ [][C17_Progress]_vars
    /\ []C17_Bounded
    /\ (scan.pc = "run") ~> (scan.pc = "done")

\* A Sub has ended after steps that shrank the current self-interval without
\* moving a pointer.
C17_Witness ==
    /\ scan.pc = "done"
    /\ scan.op = "Sub"
    /\ scan.steps > Len(last.preA) + Len(last.preB)

----------------------------------------------------------------------------
(* Package modinterval: Modulus and IntInterval.  An IntInterval is the    *)
(* record [modulus, start, size]; a call that panics returns a record      *)
(* whose err names the panic.                                              *)

Abs(a) == IF a < 0 THEN 0 - a ELSE a

\* Go's a % m for m # 0: the remainder of the division truncated towards
\* zero, with the sign of a.  With m = 0 the operation panics.
GoModulo(m, a) ==
    IF a < 0 THEN 0 - ((0 - a) % Abs(m)) ELSE a % Abs(m)

GoModuloPanics(m) == m = 0

ArrayOffset_noWrap(m, position) == GoModulo(m, position)

ArrayOffset(m, position) ==
    LET maybeNegative == GoModulo(m, position)
    IN  IF maybeNegative < 0 THEN maybeNegative + m ELSE maybeNegative

Panic(e) == [err |-> e, modulus |-> 0, start |-> 0, size |-> 0]

IntInterval(m, start, size) ==
    [err |-> "none", modulus |-> m, start |-> start, size |-> size]

FromStartSizeInt_noClamp(m, start, size) ==
    IF m < 0 THEN Panic("invalid modulus")
    ELSE IF size < 0 THEN Panic("invalid size")
    ELSE IF GoModuloPanics(m) THEN Panic("integer divide by zero")
    ELSE IntInterval(m, ArrayOffset(m, start), size)

FromStartSizeInt(m, start, size) ==
    IF m < 0 THEN Panic("invalid modulus")
    ELSE IF ~(size > m) /\ size < 0 THEN Panic("invalid size")
    ELSE IF GoModuloPanics(m) THEN Panic("integer divide by zero")
    ELSE IntInterval(m, ArrayOffset(m, start), IF size > m THEN m ELSE size)

End(iv) == ArrayOffset(iv.modulus, iv.start + iv.size)

IsEmpty(iv) == iv.size = 0

IsComplete(iv) == iv.size = iv.modulus

intMin(a, b) == IF a < b THEN a ELSE b

intMax(a, b) == IF a > b THEN a ELSE b

\* The loop of ExpandStart over the position designators pd[k ..].
RECURSIVE ExpandStartLoop(_, _, _, _)
ExpandStartLoop(iv, pd, k, minStart) ==
    IF k > Len(pd) THEN minStart
    ELSE LET offset  == ArrayOffset(iv.modulus, pd[k])
             offset2 == IF offset >= End(iv) THEN offset - iv.modulus ELSE offset
         IN  ExpandStartLoop(iv, pd, k + 1, intMin(minStart, offset2))

ExpandStart(iv, pd) ==
    IF IsComplete(iv) \/ Len(pd) = 0 THEN iv
    ELSE LET minStart == ExpandStartLoop(iv, pd, 1, iv.start)
         IN  FromStartSizeInt(iv.modulus, minStart, End(iv) - minStart)

\* The loop of ExpandEnd over the position designators pd[k ..].
RECURSIVE ExpandEndLoop(_, _, _, _)
ExpandEndLoop(iv, pd, k, maxEnd) ==
    IF k > Len(pd) THEN maxEnd
    ELSE LET e  == ArrayOffset(iv.modulus, pd[k] + 1)
             e2 == IF e < iv.start THEN e + iv.modulus ELSE e
         IN  ExpandEndLoop(iv, pd, k + 1, intMax(maxEnd, e2))

ExpandEnd(iv, pd) ==
    IF IsComplete(iv) \/ Len(pd) = 0 THEN iv
    ELSE LET maxEnd == ExpandEndLoop(iv, pd, 1, End(iv))
         IN  FromStartSizeInt(iv.modulus, iv.start, maxEnd - iv.start)

ExpandMinimal(iv, pd) ==
    LET a == ExpandStart(iv, pd)
        b == ExpandEnd(iv, pd)
    IN  IF a.size > b.size THEN b ELSE a

\* RealIntInterval: a non-modular integer interval [start, start + size).
RealFromStartSize(start, size) == [start |-> start, size |-> size]

RealEmpty == RealFromStartSize(0, 0)

RealIsEmpty(r) == r.size = 0

RealEnd(r) == r.start + r.size

RealContains(r, i) == r.start <= i /\ i < RealEnd(r)

realIntervals_noSplit(iv) ==
    IF IsEmpty(iv) THEN [sameStart |-> RealEmpty, zeroStart |-> RealEmpty]
    ELSE [sameStart |-> RealFromStartSize(iv.start, iv.size),
          zeroStart |-> RealFromStartSize(0, 0)]

realIntervals(iv) ==
    IF IsEmpty(iv) THEN [sameStart |-> RealEmpty, zeroStart |-> RealEmpty]
    ELSE LET room          == iv.modulus - iv.start
             sameStartSize == IF iv.size > room THEN room ELSE iv.size
         IN  [sameStart |-> RealFromStartSize(iv.start, sameStartSize),
              zeroStart |-> RealFromStartSize(0, iv.size - sameStartSize)]

RealIntervals(iv) ==
    LET ab == realIntervals(iv)
    IN  IF RealIsEmpty(ab.sameStart) /\ RealIsEmpty(ab.zeroStart) THEN << >>
        ELSE IF RealIsEmpty(ab.zeroStart) THEN << ab.sameStart >>
        ELSE << ab.sameStart, ab.zeroStart >>

ContainsExactInt(iv, i) ==
    LET ab == realIntervals(iv)
    IN  RealContains(ab.sameStart, i) \/ RealContains(ab.zeroStart, i)

Contains_exact(iv, positionDesignator) == ContainsExactInt(iv, positionDesignator)

Contains(iv, positionDesignator) ==
    ContainsExactInt(iv, ArrayOffset(iv.modulus, positionDesignator))

normalized_asIs(iv) == iv

normalized(iv) ==
    IF ~IsComplete(iv) THEN iv ELSE FromStartSizeInt(iv.modulus, 0, iv.size)

EqualSets(iv, other) ==
    IF iv.size # other.size THEN FALSE
    ELSE IF IsEmpty(iv) THEN TRUE
    ELSE normalized(iv).start = normalized(other).start

\* The arguments of the calls.
Moduli == (0 - 1) .. MaxModulus

ModPositions == (0 - MaxModulus - 1) .. (MaxModulus + 1)

ModSizes == (0 - 1) .. (MaxModulus + 2)

\* The argument lists of the variadic Expand methods: none, one or two
\* position designators.
Designators ==
    {<< >>} \cup { <<p>> : p \in ModPositions }
            \cup { <<p, q>> : p \in ModPositions, q \in ModPositions }

ExpandOps == {"ExpandStart", "ExpandEnd", "ExpandMinimal"}

InitMod ==
    /\ A = << >>
    /\ B = << >>
    /\ argCell = "b"
    /\ bKind = "new"
    /\ snapAt = << >>
    /\ last = NoCall
    /\ ret = NoRet
    /\ ib = Idle
    /\ scan = NoScan
    /\ mod = NoMod

\* Modulus(m).ArrayOffset(position).
ArrayOffsetCall(m, position) ==
    /\ mod.op = "none"
    /\ mod' = [op |-> "ArrayOffset", m |-> m, position |-> position,
               err |-> IF GoModuloPanics(m) THEN "integer divide by zero" ELSE "none",
               val |-> IF GoModuloPanics(m) THEN 0 ELSE ArrayOffset(m, position)]
    /\ UNCHANGED <<A, B, argCell, bKind, snapAt, last, ret, ib, scan>>

\* iv := FromStartSizeInt(m, start, size).
FromStartSizeIntCall(m, start, size) ==
    /\ mod.op = "none"
    /\ mod' = [op |-> "FromStartSizeInt", m |-> m, start |-> start, size |-> size,
               iv |-> FromStartSizeInt(m, start, size)]
    /\ UNCHANGED <<A, B, argCell, bKind, snapAt, last, ret, ib, scan>>

\* iv.ExpandStart(pd...), iv.ExpandEnd(pd...) or iv.ExpandMinimal(pd...) on
\* the interval the constructor returned.
ExpandCall(op, pd) ==
    /\ mod.op = "FromStartSizeInt"
    /\ mod.iv.err = "none"
    /\ mod' = [op |-> op, recv |-> mod.iv, pd |-> pd,
               iv |-> IF op = "ExpandStart" THEN ExpandStart(mod.iv, pd)
                      ELSE IF op = "ExpandEnd" THEN ExpandEnd(mod.iv, pd)
                      ELSE ExpandMinimal(mod.iv, pd)]
    /\ UNCHANGED <<A, B, argCell, bKind, snapAt, last, ret, ib, scan>>

\* iv.RealIntervals() on the interval the constructor returned.
RealIntervalsCall ==
    /\ mod.op = "FromStartSizeInt"
    /\ mod.iv.err = "none"
    /\ mod' = [op |-> "RealIntervals", recv |-> mod.iv, parts |-> RealIntervals(mod.iv)]
    /\ UNCHANGED <<A, B, argCell, bKind, snapAt, last, ret, ib, scan>>

\* iv.Contains(position) and iv.ContainsExactInt(i).
IntContainsCall(position) ==
    /\ mod.op = "FromStartSizeInt"
    /\ mod.iv.err = "none"
    /\ mod' = [op |-> "Contains", recv |-> mod.iv, position |-> position,
               val |-> Contains(mod.iv, position)]
    /\ UNCHANGED <<A, B, argCell, bKind, snapAt, last, ret, ib, scan>>

ContainsExactIntCall(i) ==
    /\ mod.op = "FromStartSizeInt"
    /\ mod.iv.err = "none"
    /\ mod' = [op |-> "ContainsExactInt", recv |-> mod.iv, position |-> i,
               val |-> ContainsExactInt(mod.iv, i)]
    /\ UNCHANGED <<A, B, argCell, bKind, snapAt, last, ret, ib, scan>>

\* iv.EqualSets(other) and other.EqualSets(iv), with other a second interval
\* FromStartSizeInt(m, start, size) of any modulus.
EqualSetsCall(m, start, size) ==
    /\ mod.op = "FromStartSizeInt"
    /\ mod.iv.err = "none"
    /\ start < m /\ size <= m
    /\ LET other == FromStartSizeInt(m, start, size)
       IN  mod' = [op |-> "EqualSets", recv |-> mod.iv, other |-> other,
                   val |-> EqualSets(mod.iv, other),
                   rev |-> EqualSets(other, mod.iv)]
    /\ UNCHANGED <<A, B, argCell, bKind, snapAt, last, ret, ib, scan>>

NextMod ==
    \/ \E m \in Moduli, position \in ModPositions : ArrayOffsetCall(m, position)
    \/ \E m \in Moduli, start \in ModPositions, size \in ModSizes :
           FromStartSizeIntCall(m, start, size)
    \/ \E op \in ExpandOps, pd \in Designators : ExpandCall(op, pd)
    \/ RealIntervalsCall
    \/ \E position \in ModPositions : IntContainsCall(position)
    \/ \E i \in ModPositions : ContainsExactIntCall(i)
    \/ \E m \in 1 .. MaxModulus, start \in 0 .. MaxModulus, size \in 0 .. MaxModulus :
           EqualSetsCall(m, start, size)

SpecMod == InitMod /\ [][NextMod]_vars

\* C18: FromStartSizeInt(m, start, size) fails exactly when m < 0 or
\* size < 0; with m >= 0 (m = 0 included) and size >= 0 it returns an interval.
C18_FailsExactlyOnNegative ==
    mod.op = "FromStartSizeInt" =>
        ((mod.iv.err # "none") <=> (mod.m < 0 \/ mod.size < 0))

\* C19: every IntInterval returned by FromStartSizeInt, ExpandStart, ExpandEnd
\* or ExpandMinimal has 0 <= size <= modulus and 0 <= start < modulus; the
\* interval of FromStartSizeInt(m, start, size) starts at start reduced into
\* [0, m) and has size min(size, m), so it is complete when size > m.
C19_Representation ==
    (mod.op \in ExpandOps \cup {"FromStartSizeInt"} /\ mod.iv.err = "none") =>
        /\ 0 <= mod.iv.size /\ mod.iv.size <= mod.iv.modulus
        /\ 0 <= mod.iv.start /\ mod.iv.start < mod.iv.modulus
        /\ mod.op \in ExpandOps => mod.iv.modulus = mod.recv.modulus
        /\ mod.op = "FromStartSizeInt" =>
               /\ mod.iv.modulus = mod.m
               /\ mod.iv.start = mod.start % mod.m
               /\ mod.iv.size = (IF mod.size < mod.m THEN mod.size ELSE mod.m)
               /\ mod.size > mod.m => IsComplete(mod.iv)

\* A size above the modulus and a negative start: the interval is complete
\* and starts inside [0, modulus).
C19_Witness ==
    /\ mod.op = "FromStartSizeInt"
    /\ mod.m = 3 /\ mod.size = 5 /\ mod.start = 0 - 1
    /\ mod.iv = IntInterval(3, 2, 3)

RealRange == (0 - 2 * MaxModulus - 2 * MaxReal - 4) .. (2 * MaxModulus + 2 * MaxReal + 4)

RealPoints(r) == { i \in RealRange : r.start <= i /\ i < r.start + r.size }

\* The forward cyclic distance from a to position, both taken inside [0, m).
CyclicDistance(m, a, position) == ((position % m) - a) % m

\* C21: RealIntervals() returns no part for an empty interval, the one part
\* [start, start+size) when start+size <= m, and the two parts [start, m),
\* [0, size-(m-start)) in that order when the interval crosses the boundary;
\* parts are non-empty, disjoint, inside [0, m), sum to Size(), and the first
\* part starts at Start().
C21_RealIntervals ==
    mod.op = "RealIntervals" =>
        LET m == mod.recv.modulus
            s == mod.recv.start
            z == mod.recv.size
            parts == mod.parts
        IN  /\ z = 0 => parts = << >>
            /\ (z > 0 /\ s + z <= m) => parts = << [start |-> s, size |-> z] >>
            /\ s + z > m => parts = << [start |-> s, size |-> m - s],
                                      [start |-> 0, size |-> z - (m - s)] >>
            /\ \A k \in 1 .. Len(parts) :
                   /\ parts[k].size > 0
                   /\ parts[k].start >= 0
                   /\ parts[k].start + parts[k].size <= m
            /\ Len(parts) = 2 => RealPoints(parts[1]) \cap RealPoints(parts[2]) = {}
            /\ Len(parts) >= 1 => parts[1].start = s
            /\ Cardinality(UNION { RealPoints(parts[k]) : k \in 1 .. Len(parts) }) = z

\* An interval that crosses the boundary has been split in two parts.
C21_Witness ==
    /\ mod.op = "RealIntervals"
    /\ Len(mod.parts) = 2
    /\ mod.parts[2].size > 1

\* C22: Contains(p) is ContainsExactInt(ArrayOffset(p)) and holds iff the
\* forward cyclic distance from Start() to p is below Size(), so Size() of the
\* m domain points are contained and Contains(p) = Contains(p + k*m);
\* ContainsExactInt(i) is false for every i outside [0, m).
C22_Contains ==
    /\ mod.op = "Contains" =>
           LET iv == mod.recv
               m  == mod.recv.modulus
           IN  /\ mod.val = ContainsExactInt(iv, mod.position % m)
               /\ mod.val = (CyclicDistance(m, iv.start, mod.position) < iv.size)
               /\ Cardinality({ i \in 0 .. (m - 1) : Contains(iv, i) }) = iv.size
               /\ \A k \in {0 - 2, 0 - 1, 1, 2} :
                      Contains(iv, mod.position + k * m) = mod.val
    /\ mod.op = "ContainsExactInt" =>
           LET iv == mod.recv
               m  == mod.recv.modulus
           IN  IF mod.position \in 0 .. (m - 1)
               THEN mod.val = (CyclicDistance(m, iv.start, mod.position) < iv.size)
               ELSE mod.val = FALSE

\* A position beyond the modulus lies in the wrapped part of an interval.
C22_Witness ==
    /\ mod.op = "Contains"
    /\ mod.recv.start + mod.recv.size > mod.recv.modulus
    /\ mod.position >= mod.recv.modulus
    /\ mod.val = TRUE

\* The points of [0, m) an interval contains, and those a list designates.
PointsIn(iv) == { i \in 0 .. (iv.modulus - 1) : Contains(iv, i) }

Designated(m, pd) == { pd[k] % m : k \in 1 .. Len(pd) }

\* The case of the Expand claims: an incomplete receiver and some points.
Expanding(op) ==
    /\ mod.op = op
    /\ ~IsComplete(mod.recv)
    /\ mod.pd # << >>

\* C23: ExpandStart on an incomplete interval with a non-empty list of points
\* keeps End(), contains every point the receiver contained and every given
\* point, and has the smallest size that does so.
C23_ExpandStart ==
    Expanding("ExpandStart") =>
        LET m    == mod.recv.modulus
            need == PointsIn(mod.recv) \cup Designated(m, mod.pd)
        IN  /\ mod.iv.err = "none"
            /\ End(mod.iv) = End(mod.recv)
            /\ need \subseteq PointsIn(mod.iv)
            /\ \A z \in 0 .. (mod.iv.size - 1) :
                   ~(need \subseteq PointsIn(FromStartSizeInt(m, End(mod.recv) - z, z)))

\* C24: ExpandEnd on an incomplete interval with a non-empty list of points
\* keeps Start(), contains every point the receiver contained and every given
\* point (a point equal to Start() - 1 included), and has the smallest size
\* that does so.
C24_ExpandEnd ==
    Expanding("ExpandEnd") =>
        LET m    == mod.recv.modulus
            need == PointsIn(mod.recv) \cup Designated(m, mod.pd)
        IN  /\ mod.iv.err = "none"
            /\ mod.iv.start = mod.recv.start
            /\ need \subseteq PointsIn(mod.iv)
            /\ \A z \in 0 .. (mod.iv.size - 1) :
                   ~(need \subseteq PointsIn(FromStartSizeInt(m, mod.recv.start, z)))

\* C25: ExpandMinimal returns whichever of ExpandStart and ExpandEnd has the
\* smaller size (ExpandStart on a tie); the result contains every point of
\* the receiver and every given point and no smaller interval does; with no
\* points or a complete receiver the three Expand operations return it as is.
C25_ExpandMinimal ==
    /\ mod.op = "ExpandMinimal" =>
           LET a == ExpandStart(mod.recv, mod.pd)
               b == ExpandEnd(mod.recv, mod.pd)
               m == mod.recv.modulus
               need == PointsIn(mod.recv) \cup Designated(m, mod.pd)
           IN  /\ mod.iv = (IF b.size < a.size THEN b ELSE a)
               /\ need \subseteq PointsIn(mod.iv)
               /\ \A st \in 0 .. (m - 1), z \in 0 .. (mod.iv.size - 1) :
                      ~(need \subseteq PointsIn(FromStartSizeInt(m, st, z)))
    /\ (mod.op \in ExpandOps /\ (IsComplete(mod.recv) \/ mod.pd = << >>))
           => mod.iv = mod.recv

\* The start compared by EqualSets: 0 for a complete interval.
ComparedStart(iv) == IF iv.size = iv.modulus THEN 0 ELSE iv.start

\* C26: a.EqualSets(b) is true iff the sizes are equal and either both
\* intervals are empty or the starts are equal after replacing the start of a
\* complete interval by 0; the moduli are not compared, and the relation is
\* symmetric.
C26_EqualSets ==
    mod.op = "EqualSets" =>
        /\ mod.val = (/\ mod.recv.size = mod.other.size
                      /\ \/ mod.recv.size = 0
                         \/ ComparedStart(mod.recv) = ComparedStart(mod.other))
        /\ mod.val = mod.rev

\* Two empty intervals with different starts are equal sets.
C26_Witness ==
    /\ mod.op = "EqualSets"
    /\ mod.recv.size = 0 /\ mod.other.size = 0
    /\ mod.recv.start # mod.other.start
    /\ mod.val = TRUE

\* The rule without the case of the empty intervals: equal sizes and equal
\* compared starts.
C26_StartsAlwaysCompared ==
    mod.op = "EqualSets" =>
        /\ mod.val = (/\ mod.recv.size = mod.other.size
                      /\ ComparedStart(mod.recv) = ComparedStart(mod.other))
        /\ mod.val = mod.rev

----------------------------------------------------------------------------
(* RealIntInterval: Intersection and Expand on an interval r made by       *)
(* RealFromStartSize.                                                      *)

Intersection(r, other) ==
    LET start == intMax(r.start, other.start)
        end   == intMax(RealEnd(r), RealEnd(other))
    IN  IF end <= start THEN RealEmpty ELSE RealFromStartSize(start, end - start)

\* The loop of Expand over value[k ..]: the running min and max.
RECURSIVE ExpandLoop(_, _, _, _)
ExpandLoop(value, k, lo, hi) ==
    IF k > Len(value) THEN [min |-> lo, max |-> hi]
    ELSE ExpandLoop(value, k + 1,
                    IF value[k] < lo THEN value[k] ELSE lo,
                    IF value[k] > hi THEN value[k] ELSE hi)

Expand(r, value) ==
    IF Len(value) = 0 THEN r
    ELSE LET lo0 == IF ~RealIsEmpty(r) THEN r.start ELSE value[1]
             hi0 == IF ~RealIsEmpty(r) THEN RealEnd(r) + 1 ELSE value[1]
             mm  == ExpandLoop(value, 1, lo0, hi0)
         IN  [start |-> mm.min, size |-> mm.max - mm.min + 1]

RealStarts == (0 - MaxReal) .. MaxReal

RealSizes == 0 .. MaxReal

RealValues == (0 - MaxReal - 1) .. (2 * MaxReal + 1)

\* The argument lists of the variadic Expand: none, one or two values.
ValueLists ==
    {<< >>} \cup { <<v>> : v \in RealValues }
            \cup { <<v, w>> : v \in RealValues, w \in RealValues }

InitReal ==
    /\ A = << >>
    /\ B = << >>
    /\ argCell = "b"
    /\ bKind = "new"
    /\ snapAt = << >>
    /\ last = NoCall
    /\ ret = NoRet
    /\ ib = Idle
    /\ scan = NoScan
    /\ mod = NoMod

\* r := RealFromStartSize(start, size).
RealFromStartSizeCall(start, size) ==
    /\ mod.op = "none"
    /\ mod' = [op |-> "RealFromStartSize", r |-> RealFromStartSize(start, size)]
    /\ UNCHANGED <<A, B, argCell, bKind, snapAt, last, ret, ib, scan>>

\* r.Intersection(RealFromStartSize(start, size)).
IntersectionCall(start, size) ==
    /\ mod.op = "RealFromStartSize"
    /\ LET other == RealFromStartSize(start, size)
       IN  mod' = [op |-> "Intersection", r |-> mod.r, other |-> other,
                   val |-> Intersection(mod.r, other)]
    /\ UNCHANGED <<A, B, argCell, bKind, snapAt, last, ret, ib, scan>>

\* r.Expand(value...).
RealExpandCall(value) ==
    /\ mod.op = "RealFromStartSize"
    /\ mod' = [op |-> "Expand", r |-> mod.r, value |-> value,
               val |-> Expand(mod.r, value)]
    /\ UNCHANGED <<A, B, argCell, bKind, snapAt, last, ret, ib, scan>>

NextReal ==
    \/ \E start \in RealStarts, size \in RealSizes : RealFromStartSizeCall(start, size)
    \/ \E start \in RealStarts, size \in RealSizes : IntersectionCall(start, size)
    \/ \E value \in ValueLists : RealExpandCall(value)

SpecReal == InitReal /\ [][NextReal]_vars

\* C27: Intersection(other) is the interval from max(r.Start, other.Start)
\* to min(r.End, other.End) when that is non-empty and the empty interval
\* otherwise, so it contains exactly the integers contained in both.
C27_Intersection ==
    mod.op = "Intersection" =>
        LET start == max(mod.r.start, mod.other.start)
            end   == min(mod.r.start + mod.r.size, mod.other.start + mod.other.size)
        IN  /\ mod.val = (IF end > start THEN [start |-> start, size |-> end - start]
                          ELSE [start |-> 0, size |-> 0])
            /\ RealPoints(mod.val) = RealPoints(mod.r) \cap RealPoints(mod.other)

\* C29: Expand(values) is the smallest interval containing every integer of r
\* and every given value: [min(values), max(values)] for an empty r, r itself
\* when r is non-empty and the values lie inside it or when there are no values.
C29_Expand ==
    mod.op = "Expand" =>
        LET need == RealPoints(mod.r) \cup { mod.value[k] : k \in 1 .. Len(mod.value) }
        IN  /\ mod.value = << >> => mod.val = mod.r
            /\ mod.value # << >> =>
                   /\ mod.val.size = Cardinality(RealPoints(mod.val))
                   /\ need \subseteq RealPoints(mod.val)
                   /\ \A i \in need : \A j \in need :
                          mod.val.start <= i /\ mod.val.size >= j - i + 1
                   /\ \E i \in need : \E j \in need :
                          mod.val = [start |-> i, size |-> j - i + 1]

\* The non-empty intersections of the pairs (a[i], b[j]).
Overlaps(a, b) ==
    { Intersect(a[i], b[j]) : i \in 1 .. Len(a), j \in 1 .. Len(b) } \ {zero}

\* A step of the Intersect scan advances the pointer of the current interval
\* that is before the other, and both pointers when neither is.
C28_StepRule ==
    (scan.pc = "run" /\ scan.op = "Intersect" /\ scan'.pc = "run") =>
        LET x == A[scan.i]
            y == B[scan.j]
        IN  IF Before(x, y) THEN scan'.i = scan.i + 1 /\ scan'.j = scan.j
            ELSE IF Before(y, x) THEN scan'.i = scan.i /\ scan'.j = scan.j + 1
            ELSE scan'.i = scan.i + 1 /\ scan'.j = scan.j + 1

\* The finished Intersect holds every non-empty pair intersection exactly
\* once, in ascending order.
C28_AllPairsEmitted ==
    (scan.pc = "done" /\ scan.op = "Intersect") =>
        /\ { A[k] : k \in 1 .. Len(A) } = Overlaps(last.preA, last.preB)
        /\ Len(A) = Cardinality(Overlaps(last.preA, last.preB))
        /\ \A k \in 1 .. (Len(A) - 1) : A[k].max <= A[k + 1].min

\* C28: the Intersect scan advances the pointer of whichever current interval
\* is before the other and both pointers when the two overlap, and under this
\* rule the intersection of every overlapping pair is emitted exactly once,
\* in ascending order.
C28_IntersectScan ==
    /\ [][C28_StepRule]_vars
    /\ []C28_AllPairsEmitted

====
